---- MODULE Spec2Model ----
(***************************************************************************)
(* Authenticated task synchronisation layer of the task tracker: the       *)
(* Express routes (session check, validation, repository calls, broadcast) *)
(* and the DatabaseStorage repository behind them.                         *)
(*                                                                         *)
(* Every request is served by a handler that runs between awaits; the      *)
(* database executes one statement at a time.  A route that awaits several *)
(* repository calls is therefore split into one action per statement, and  *)
(* the handlers of different requests interleave between those actions.    *)
(***************************************************************************)
EXTENDS Integers, Sequences, FiniteSets, TLC

(***************************************************************************)
(* Bounds of the model                                                     *)
(***************************************************************************)
\* requests taken up in one behaviour
MaxRequests == 3
\* tasks created in one behaviour
MaxTasks == 1
\* requests that may be in flight at the same time
MaxInFlight == 2
\* number of clock ticks in one behaviour
MaxClock == 1

(***************************************************************************)
(* Program constants                                                       *)
(***************************************************************************)
\* jwt.sign(..., { expiresIn: "7d" }): validity of a session, in days
SessionTTL == 7
\* title: z.string().min(1).max(100)
MaxTitleLen == 100
MinUsernameLen == 3
MaxUsernameLen == 30
MinPasswordLen == 6

Null == "null"

(***************************************************************************)
(* Values of the data model                                                *)
(***************************************************************************)
Priorities == {"low", "medium", "high", "urgent"}
Statuses == {"todo", "in_progress", "review", "completed"}

\* bcrypt.hash / bcrypt.compare (the salt is not modelled)
Hash(password) == "bcrypt$" \o password
Compare(password, hash) == hash = Hash(password)

\* randomUUID(): the n-th id generated is distinct from all earlier ones
UserId(n) == "u" \o ToString(n)
TaskId(n) == "t" \o ToString(n)

\* const { password, ...publicUser } = user; the mutant forgets to strip
LeakUser(user) == user
toPublicUser(user) == [k \in DOMAIN user \ {"password"} |-> user[k]]

(***************************************************************************)
(* Session authority: jwt.sign, jwt.verify                                 *)
(***************************************************************************)
NoToken == [kind |-> "none"]
Garbage == [kind |-> "garbage"]
NoCookie == [kind |-> "unchanged"]
ClearCookie == [kind |-> "cleared"]

Sign(userId, email, iat) ==
    [kind |-> "jwt", userId |-> userId, email |-> email, iat |-> iat,
     exp |-> iat + SessionTTL, sig |-> "server"]

Forge(userId, email, iat) ==
    [Sign(userId, email, iat) EXCEPT !.sig = "other"]

\* jwt.verify(token, JWT_SECRET): throws unless well formed, signed with the
\* secret and not expired (now >= exp is expired); the mutant ignores exp
VerifyIgnoringExpiry(token, now) == token.kind = "jwt" /\ token.sig = "server"
Verifies(token, now) ==
    /\ token.kind = "jwt"
    /\ token.sig = "server"
    /\ now < token.exp

Payload(token) == [userId |-> token.userId, email |-> token.email]

VARIABLES
    users,      \* rows of the users table
    tasks,      \* rows of the tasks table
    nextUser,   \* number of user ids generated so far
    nextTask,   \* number of task ids generated so far
    clock,      \* the server clock (new Date()), in days
    h,          \* the requests in flight: each with its locals and where it is
    nreq,       \* number of requests taken up so far
    events,     \* every io.emit so far, in order
    last,       \* the response being sent, with its request
    sockets,    \* the realtime channel of each client, as the server holds it
    clients     \* each client's query cache of /api/tasks and its notifications

vars == <<users, tasks, nextUser, nextTask, clock, h, nreq, events, last, sockets, clients>>

(***************************************************************************)
(* Repository reads                                                        *)
(***************************************************************************)
UserById(id) == {u \in users : u.id = id}
UserByEmail(email) == {u \in users : u.email = email}
UserByUsername(username) == {u \in users : u.username = username}
TaskById(id) == {t \in tasks : t.id = id}

\* DatabaseStorage.enrichTask; assignedTo is {} for null, {user} otherwise.
\* The mutant does not look the assignee up
enrichTaskWithoutAssignee(task) ==
    LET creator == CHOOSE u \in users : u.id = task.creatorId
    IN  task @@ [creator |-> toPublicUser(creator), assignedTo |-> {}]
enrichTask(task) ==
    LET creator == CHOOSE u \in users : u.id = task.creatorId
        assignee == UserById(task.assignedToId)
    IN  task @@
        [creator |-> toPublicUser(creator),
         assignedTo |-> IF task.assignedToId # Null /\ assignee # {}
                        THEN {toPublicUser(u) : u \in assignee}
                        ELSE {}]

\* DatabaseStorage.getAllUsers
getAllUsers == {toPublicUser(u) : u \in users}

\* DatabaseStorage.getAllTasks (the order by createdAt is not modelled)
getAllTasks == {enrichTask(t) : t \in tasks}

(***************************************************************************)
(* authMiddleware                                                          *)
(***************************************************************************)
authMiddleware(token, now) ==
    IF token = NoToken
    THEN [ok |-> FALSE, message |-> "Authentication required"]
    ELSE IF Verifies(token, now)
         THEN [ok |-> TRUE, user |-> Payload(token)]
         ELSE [ok |-> FALSE, message |-> "Invalid or expired token"]

\* The tokens a request may carry: none, an unparsable one, a wrongly signed
\* one, and the tokens the server has signed for a registered user (at its
\* registration or at a login now)
TokenInputs ==
    {NoToken, Garbage}
    \cup {Forge(u.id, u.email, clock) : u \in users}
    \cup UNION {{Sign(u.id, u.email, t) : t \in {u.createdAt, clock}} : u \in users}

\* A session as the interface describes it: a token the server signed and
\* issued no more than SessionTTL days ago
ValidSession(token, now) ==
    /\ token.kind = "jwt"
    /\ token.sig = "server"
    /\ now - token.iat <= SessionTTL

\* The requests authMiddleware passes on to their route, each with req.user
\* and with whether its token was a valid session
Admitted ==
    {[user |-> authMiddleware(token, clock).user,
      session |-> ValidSession(token, clock)] :
        token \in {t \in TokenInputs : authMiddleware(t, clock).ok}}

\* the routes registered with authMiddleware
ProtectedRoutes ==
    {"GET /api/auth/me", "GET /api/users", "GET /api/tasks", "GET /api/tasks/:id",
     "POST /api/tasks", "PATCH /api/tasks/:id", "DELETE /api/tasks/:id"}

(***************************************************************************)
(* Requests and responses                                                  *)
(***************************************************************************)
\* calls counts the repository calls made for the request, writes the rows
\* its statements have inserted, changed or removed
Request(route) == [route |-> route, rid |-> 0, calls |-> 0, writes |-> 0]

Response(req, status, body, cookie) ==
    [req |-> req, status |-> status, body |-> body, cookie |-> cookie]

NoResponse == [status |-> 0]

Req(r) == [k \in DOMAIN r \ {"pc"} |-> r[k]]

\* a request taken up, continuing at pc after its first await
Accept(req, pc) ==
    /\ last = NoResponse
    /\ nreq < MaxRequests
    /\ Cardinality(h) < MaxInFlight
    /\ nreq' = nreq + 1
    /\ h' = h \cup {[req EXCEPT !.rid = nreq + 1] @@ [pc |-> pc]}
    /\ last' = NoResponse

\* request r goes on as r2 after the statement it awaited
Continue(r, r2) ==
    /\ last = NoResponse
    /\ h' = (h \ {r}) \cup {r2}
    /\ last' = NoResponse

\* res.cookie(..) and res.status(..).json(..) of request r, which ends as req
RespondCookie(r, req, status, body, cookie) ==
    /\ last = NoResponse
    /\ h' = h \ {r}
    /\ last' = Response(Req(req), status, body, cookie)

\* res.status(..).json(..) of request r, which ends as req
Respond(r, req, status, body) == RespondCookie(r, req, status, body, NoCookie)

\* a request answered before its route awaits anything, or by a route with a
\* single repository call
Answer(req, status, body, cookie) ==
    /\ last = NoResponse
    /\ last' = Response(req, status, body, cookie)
    /\ UNCHANGED <<h, nreq>>

\* handleError: a ZodError gives 400 with its first message; any other Error
\* gives 400 with the error's own message; the rest 500
handleError(error, defaultMessage) ==
    IF error.kind \in {"zod", "error"}
    THEN [status |-> 400, body |-> [message |-> error.message]]
    ELSE [status |-> 500, body |-> [message |-> defaultMessage]]

\* the response has left the server
Sent ==
    /\ last # NoResponse
    /\ last' = NoResponse
    /\ UNCHANGED <<users, tasks, nextUser, nextTask, clock, h, nreq, events, sockets, clients>>

\* the browsers: each holds one socket and one mounted page
ClientIds == {"c1", "c2"}

\* a socket the server does not hold connected
NoSocket == [connected |-> FALSE, attempt |-> {}, user |-> {}, inbox |-> <<>>,
             missed |-> FALSE]

\* io.emit: the packets go to every socket connected now; inbox is what has
\* been sent to a socket and is not handled by its client yet, missed whether
\* an emit passed a socket by.  One mutant leaves out sockets without a user,
\* the other sockets whose handshake token is no longer valid
BroadcastToLiveSessions(socks, evs) ==
    [c \in DOMAIN socks |->
        IF /\ socks[c].connected
           /\ \A a \in socks[c].attempt :
                 Verifies(IF a.auth # NoToken THEN a.auth ELSE a.cookie, clock)
        THEN [socks[c] EXCEPT !.inbox = @ \o evs]
        ELSE [socks[c] EXCEPT !.missed = TRUE]]
BroadcastToIdentified(socks, evs) ==
    [c \in DOMAIN socks |->
        IF socks[c].connected /\ socks[c].user # {}
        THEN [socks[c] EXCEPT !.inbox = @ \o evs]
        ELSE [socks[c] EXCEPT !.missed = TRUE]]
Broadcast(socks, evs) ==
    [c \in DOMAIN socks |->
        IF socks[c].connected
        THEN [socks[c] EXCEPT !.inbox = @ \o evs]
        ELSE [socks[c] EXCEPT !.missed = TRUE]]

\* emitTaskEvent: io.emit(event, data)
Emit(evs) ==
    /\ events' = events \o evs
    /\ sockets' = Broadcast(sockets, evs)

\* authMiddleware answering 401 instead of calling next()
Unauthenticated(route, token) ==
    /\ route \in ProtectedRoutes
    /\ ~authMiddleware(token, clock).ok
    /\ Answer(Request(route) @@ [token |-> token, session |-> ValidSession(token, clock)],
              401,
              [message |-> authMiddleware(token, clock).message], NoCookie)
    /\ UNCHANGED <<users, tasks, nextUser, nextTask, clock, events, sockets, clients>>

(***************************************************************************)
(* shared/schema: insertTaskSchema, updateTaskSchema                       *)
(***************************************************************************)
\* the keys the task schemas keep; zod strips every other key of the body
InsertKeys == {"title", "description", "dueDate", "priority", "status", "assignedToId"}

ZodError(message) == [ok |-> FALSE, error |-> [kind |-> "zod", message |-> message]]
DbError(message) == [kind |-> "error", message |-> message]

\* insertTaskSchema.parse (partial = FALSE), updateTaskSchema.parse (TRUE);
\* one mutant keeps the keys the schema omits, the other keeps creatorId
ParseKeepingAllKeys(body, partial) == [ok |-> TRUE, data |-> body]
ParseKeepingCreator(body, partial) ==
    [ok |-> TRUE,
     data |-> [k \in DOMAIN body \cap (InsertKeys \cup {"creatorId"}) |-> body[k]]]
ParseTask(body, partial) ==
    IF "title" \notin DOMAIN body /\ ~partial
    THEN ZodError("Required")
    ELSE IF "title" \in DOMAIN body /\ Len(body.title) < 1
    THEN ZodError("Title is required")
    ELSE IF "title" \in DOMAIN body /\ Len(body.title) > MaxTitleLen
    THEN ZodError("Title must be 100 characters or less")
    ELSE IF "priority" \in DOMAIN body /\ body.priority \notin Priorities
    THEN ZodError("Invalid enum value")
    ELSE IF "status" \in DOMAIN body /\ body.status \notin Statuses
    THEN ZodError("Invalid enum value")
    ELSE [ok |-> TRUE,
          data |-> [k \in DOMAIN body \cap InsertKeys |-> body[k]]]

\* new Date(dueDate) of a date-only string: midnight UTC of that day
ParseDate(s) == s \o "T00:00:00.000Z"

Truthy(v) == v \notin {Null, ""}

(***************************************************************************)
(* DatabaseStorage: the rows createTask and updateTask write                *)
(***************************************************************************)
\* the values createTask inserts; columns left out take the table's default
CreateRow(data, id, creatorId, now) ==
    [dueDate |-> IF "dueDate" \in DOMAIN data /\ Truthy(data.dueDate)
                 THEN ParseDate(data.dueDate) ELSE Null,
     id |-> id, creatorId |-> creatorId, createdAt |-> now, updatedAt |-> now]
    @@ data
    @@ [description |-> Null, priority |-> "medium", status |-> "todo",
        assignedToId |-> Null]

\* updateData of updateTask: the patch, updatedAt, and dueDate re-parsed;
\* the mutant re-parses dueDate whether the patch has the key or not
UpdateDataAlwaysDueDate(data, now) ==
    [dueDate |-> IF "dueDate" \in DOMAIN data /\ Truthy(data.dueDate)
                 THEN ParseDate(data.dueDate) ELSE Null,
     updatedAt |-> now]
    @@ data
UpdateData(data, now) ==
    (IF "dueDate" \in DOMAIN data
     THEN [dueDate |-> IF Truthy(data.dueDate) THEN ParseDate(data.dueDate) ELSE Null]
     ELSE <<>>)
    @@ [updatedAt |-> now]
    @@ data

\* update tasks set ... : the columns named in updateData change.
\* One mutant writes the whole row, the nullable columns the patch leaves out
\* as null; the other drops an update older than the stored row
SetColumnsReplacingRow(row, updateData) ==
    [k \in DOMAIN row |->
        IF k \in DOMAIN updateData THEN updateData[k]
        ELSE IF k \in {"description", "dueDate", "assignedToId"} THEN Null
        ELSE row[k]]
SetColumnsUnlessNewer(row, updateData) ==
    IF updateData.updatedAt < row.updatedAt
    THEN row
    ELSE [k \in DOMAIN row |-> IF k \in DOMAIN updateData THEN updateData[k] ELSE row[k]]
SetColumns(row, updateData) ==
    [k \in DOMAIN row |-> IF k \in DOMAIN updateData THEN updateData[k] ELSE row[k]]

\* tasks.assigned_to_id references users.id
ForeignKeyOk(row) == row.assignedToId = Null \/ UserById(row.assignedToId) # {}
ForeignKeyMessage == "violates foreign key constraint"

NoId == "t0"
PathIds == {TaskId(n) : n \in 1..nextTask} \cup {NoId}

(***************************************************************************)
(* POST /api/tasks                                                         *)
(***************************************************************************)
\* a title of 101 characters
LongTitle == "xxxxxxxxxxxxxxxxxxxxxxxxxxxxxxxxxxxxxxxxxxxxxxxxxxxxxxxxxxxxxxxxxxxxxxxxxxxxxxxxxxxxxxxxxxxxxxxxxxxxx"
CreateBodies ==
    {[title |-> "Write report"],
     [title |-> "Write report", assignedToId |-> "u2"],
     [title |-> "Write report", assignedToId |-> "u9"],
     [title |-> "Backdated", createdAt |-> 99, updatedAt |-> 98],
     [title |-> ""],
     [title |-> LongTitle],
     [priority |-> "high"]}

\* insertTaskSchema.parse, then randomUUID() and new Date() of createTask
CreateBegin(a, body) ==
    LET req == Request("POST /api/tasks") @@ a
        parsed == ParseTask(body, FALSE)
        failure == handleError(parsed.error, "Failed to create task")
    IN  /\ nextTask < MaxTasks
        /\ IF ~parsed.ok
           THEN /\ Answer(req, failure.status, failure.body, NoCookie)
                /\ UNCHANGED nextTask
           ELSE /\ Accept(req @@ [data |-> parsed.data, id |-> TaskId(nextTask + 1),
                                  now |-> clock], "insert")
                /\ nextTask' = nextTask + 1
        /\ UNCHANGED <<users, tasks, nextUser, clock, events, sockets, clients>>

\* db.insert(tasks).values(..).returning(), then enrichTask
CreateInsert(r) ==
    /\ r.pc = "insert"
    /\ LET r2 == [r EXCEPT !.calls = @ + 1]
           row == CreateRow(r.data, r.id, r.user.userId, r.now)
           failure == handleError(DbError(ForeignKeyMessage), "Failed to create task")
       IN  IF ~ForeignKeyOk(row)
           THEN /\ Respond(r, r2, failure.status, failure.body)
                /\ UNCHANGED tasks
           ELSE /\ tasks' = tasks \cup {row}
                /\ Continue(r, [r2 EXCEPT !.pc = "emit", !.writes = @ + 1]
                               @@ [task |-> enrichTask(row)])
    /\ UNCHANGED <<users, nextUser, nextTask, clock, nreq, events, sockets, clients>>

\* the events a successful create broadcasts
CreateEvents(r) ==
    <<[type |-> "task:created", rid |-> r.rid, taskId |-> r.task.id, data |-> r.task]>>

CreateFinish(r) ==
    /\ r.pc = "emit"
    /\ r.route = "POST /api/tasks"
    /\ Emit(CreateEvents(r))
    /\ Respond(r, r, 201, r.task)
    /\ UNCHANGED <<users, tasks, nextUser, nextTask, clock, nreq, clients>>

(***************************************************************************)
(* PATCH /api/tasks/:id                                                    *)
(***************************************************************************)
PatchBodies ==
    {[assignedToId |-> "u2"],
     [assignedToId |-> Null],
     [assignedToId |-> "u9"],
     [priority |-> "high"],
     [title |-> "Renamed", createdAt |-> 99, updatedAt |-> 98],
     [title |-> LongTitle]}

\* authMiddleware passes the request on; storage.getTask, then
\* updateTaskSchema.parse, previousAssignee and the new Date() of updateTask.
\* The request is taken up when the statement of getTask is executed.
PatchBegin(session, id, body) ==
    LET req == [Request("PATCH /api/tasks/:id") EXCEPT !.calls = 1]
               @@ [session |-> session, id |-> id]
        existingTask == TaskById(id)
        parsed == ParseTask(body, TRUE)
        failure == handleError(parsed.error, "Failed to update task")
    IN  /\ IF existingTask = {}
           THEN Answer(req, 404, [message |-> "Task not found"], NoCookie)
           ELSE IF ~parsed.ok
           THEN Answer(req, failure.status, failure.body, NoCookie)
           ELSE Accept(req @@ [data |-> parsed.data,
                               previousAssignee |->
                                   (CHOOSE t \in existingTask : TRUE).assignedToId,
                               now |-> clock], "update")
        /\ UNCHANGED <<users, tasks, nextUser, nextTask, clock, events, sockets, clients>>

\* .where(eq(tasks.id, id)) of the update statement: the rows it sets; the
\* mutant is an upsert, which writes a row where it finds none
WhereIdOrNew(id) ==
    IF TaskById(id) = {}
    THEN {CreateRow([title |-> "Restored"], id, UserId(1), clock)}
    ELSE TaskById(id)
WhereId(id) == TaskById(id)

\* db.update(tasks).set(updateData).where(id).returning(), then enrichTask;
\* replaced is the row as it was when the statement was applied
PatchUpdate(r) ==
    /\ r.pc = "update"
    /\ LET r2 == [r EXCEPT !.calls = @ + 1]
           stored == WhereId(r.id)
           old == CHOOSE t \in stored : TRUE
           row == SetColumns(old, UpdateData(r.data, r.now))
           failure == handleError(DbError(ForeignKeyMessage), "Failed to update task")
       IN  IF stored = {}
           THEN /\ Respond(r, r2, 404, [message |-> "Task not found"])
                /\ UNCHANGED tasks
           ELSE IF ~ForeignKeyOk(row)
           THEN /\ Respond(r, r2, failure.status, failure.body)
                /\ UNCHANGED tasks
           ELSE /\ tasks' = (tasks \ stored) \cup {row}
                /\ Continue(r, [r2 EXCEPT !.pc = "emit", !.writes = @ + 1]
                               @@ [task |-> enrichTask(row), replaced |-> old])
    /\ UNCHANGED <<users, nextUser, nextTask, clock, nreq, events, sockets, clients>>

\* the events a successful update broadcasts; the mutant names the previous
\* assignee in task:assigned
PatchEventsPreviousAssignee(r) ==
    <<[type |-> "task:updated", rid |-> r.rid, taskId |-> r.task.id, data |-> r.task]>>
    \o (IF /\ "assignedToId" \in DOMAIN r.data
           /\ Truthy(r.data.assignedToId)
           /\ r.data.assignedToId # r.previousAssignee
        THEN <<[type |-> "task:assigned", rid |-> r.rid, taskId |-> r.task.id,
                userId |-> r.previousAssignee, data |-> r.task]>>
        ELSE <<>>)
PatchEvents(r) ==
    <<[type |-> "task:updated", rid |-> r.rid, taskId |-> r.task.id, data |-> r.task]>>
    \o (IF /\ "assignedToId" \in DOMAIN r.data
           /\ Truthy(r.data.assignedToId)
           /\ r.data.assignedToId # r.previousAssignee
        THEN <<[type |-> "task:assigned", rid |-> r.rid, taskId |-> r.task.id,
                userId |-> r.data.assignedToId, data |-> r.task]>>
        ELSE <<>>)

PatchFinish(r) ==
    /\ r.pc = "emit"
    /\ r.route = "PATCH /api/tasks/:id"
    /\ Emit(PatchEvents(r))
    /\ Respond(r, r, 200, r.task)
    /\ UNCHANGED <<users, tasks, nextUser, nextTask, clock, nreq, clients>>

(***************************************************************************)
(* DELETE /api/tasks/:id                                                   *)
(***************************************************************************)
\* authMiddleware passes the request on; storage.getTask.
\* The request is taken up when the statement of getTask is executed.
DeleteBegin(session, id) ==
    LET req == [Request("DELETE /api/tasks/:id") EXCEPT !.calls = 1]
               @@ [session |-> session, id |-> id]
    IN  /\ IF TaskById(id) = {}
           THEN Answer(req, 404, [message |-> "Task not found"], NoCookie)
           ELSE Accept(req, "delete")
        /\ UNCHANGED <<users, tasks, nextUser, nextTask, clock, events, sockets, clients>>

\* deleteTask: result.length > 0 of the rows the statement returned; the
\* mutant reports success whatever the statement removed
deleteTaskAlwaysTrue(removed) == TRUE
deleteTask(removed) == removed # {}

\* db.delete(tasks).where(id).returning()
DeleteApply(r) ==
    /\ r.pc = "delete"
    /\ LET r2 == [r EXCEPT !.calls = @ + 1]
           removed == TaskById(r.id)
       IN  /\ tasks' = tasks \ removed
           /\ IF ~deleteTask(removed)
              THEN Respond(r, r2, 404, [message |-> "Task not found"])
              ELSE Continue(r, [r2 EXCEPT !.pc = "emit",
                                          !.writes = @ + Cardinality(removed)])
    /\ UNCHANGED <<users, nextUser, nextTask, clock, nreq, events, sockets, clients>>

DeleteFinish(r) ==
    /\ r.pc = "emit"
    /\ r.route = "DELETE /api/tasks/:id"
    /\ Emit(<<[type |-> "task:deleted", rid |-> r.rid, taskId |-> r.id]>>)
    /\ Respond(r, r, 200, [message |-> "Task deleted successfully"])
    /\ UNCHANGED <<users, tasks, nextUser, nextTask, clock, nreq, clients>>

(***************************************************************************)
(* The clock                                                               *)
(***************************************************************************)
Tick(d) ==
    /\ last = NoResponse
    /\ clock + d <= MaxClock * d
    /\ clock' = clock + d
    /\ last' = NoResponse
    /\ UNCHANGED <<users, tasks, nextUser, nextTask, h, nreq, events, sockets, clients>>

(***************************************************************************)
(* GET /api/auth/me, /api/users, /api/tasks, /api/tasks/:id                *)
(* One repository call each; the lookups of enrichTask read user rows,     *)
(* which no route changes or removes.                                      *)
(***************************************************************************)
Query(route, a) == [Request(route) EXCEPT !.calls = 1] @@ a

Me(a) ==
    LET user == UserById(a.user.userId)
    IN  /\ IF user = {}
           THEN Answer(Query("GET /api/auth/me", a), 404,
                       [message |-> "User not found"], NoCookie)
           ELSE Answer(Query("GET /api/auth/me", a), 200,
                       [user |-> toPublicUser(CHOOSE u \in user : TRUE)], NoCookie)
        /\ UNCHANGED <<users, tasks, nextUser, nextTask, clock, events, sockets, clients>>

ListUsers(a) ==
    /\ Answer(Query("GET /api/users", a), 200, getAllUsers, NoCookie)
    /\ UNCHANGED <<users, tasks, nextUser, nextTask, clock, events, sockets, clients>>

ListTasks(a) ==
    /\ Answer(Query("GET /api/tasks", a), 200, getAllTasks, NoCookie)
    /\ UNCHANGED <<users, tasks, nextUser, nextTask, clock, events, sockets, clients>>

GetTask(a, id) ==
    LET task == TaskById(id)
    IN  /\ IF task = {}
           THEN Answer(Query("GET /api/tasks/:id", a), 404,
                       [message |-> "Task not found"], NoCookie)
           ELSE Answer(Query("GET /api/tasks/:id", a), 200,
                       enrichTask(CHOOSE t \in task : TRUE), NoCookie)
        /\ UNCHANGED <<users, tasks, nextUser, nextTask, clock, events, sockets, clients>>

(***************************************************************************)
(* POST /api/auth/login, POST /api/auth/logout                             *)
(* Registered without authMiddleware: the token of the request is not read *)
(***************************************************************************)
WellFormedEmails == {"alice@x.io", "bob@x.io", "carol@x.io"}

\* loginSchema.parse
ParseLogin(body) ==
    IF body.email \notin WellFormedEmails
    THEN ZodError("Invalid email address")
    ELSE IF Len(body.password) < 1
    THEN ZodError("Password is required")
    ELSE [ok |-> TRUE, data |-> body]

LoginBodies ==
    {[email |-> e, password |-> p] :
        e \in {"alice@x.io", "carol@x.io"}, p \in {"secret1", "guess"}}
    \cup {[email |-> "nope", password |-> "secret1"],
          [email |-> "alice@x.io", password |-> ""]}

\* the message of the 401 for a known email with a wrong password; the
\* mutant tells it apart from the unknown email
WrongPasswordMessageLeaky == "Invalid password"
WrongPasswordMessage == "Invalid email or password"

\* which return of the route answers this body
LoginOutcome(body) ==
    IF ~ParseLogin(body).ok THEN "invalid"
    ELSE IF UserByEmail(body.email) = {} THEN "unknown email"
    ELSE IF ~Compare(body.password, (CHOOSE u \in UserByEmail(body.email) : TRUE).password)
    THEN "wrong password"
    ELSE "ok"

\* what the route answers: status, body and the cookie it sets
LoginResponse(body) ==
    LET failure == handleError(ParseLogin(body).error, "Login failed")
        user == CHOOSE u \in UserByEmail(body.email) : TRUE
    IN  CASE LoginOutcome(body) = "invalid" ->
               [status |-> failure.status, body |-> failure.body, cookie |-> NoCookie]
          [] LoginOutcome(body) = "unknown email" ->
               [status |-> 401, body |-> [message |-> "Invalid email or password"],
                cookie |-> NoCookie]
          [] LoginOutcome(body) = "wrong password" ->
               [status |-> 401, body |-> [message |-> WrongPasswordMessage],
                cookie |-> NoCookie]
          [] LoginOutcome(body) = "ok" ->
               [status |-> 200, body |-> [user |-> toPublicUser(user)],
                cookie |-> Sign(user.id, user.email, clock)]

Login(session, body) ==
    LET req == [Request("POST /api/auth/login")
                   EXCEPT !.calls = IF ParseLogin(body).ok THEN 1 ELSE 0]
               @@ [session |-> session, body |-> body]
        res == LoginResponse(body)
    IN  /\ Answer(req, res.status, res.body, res.cookie)
        /\ UNCHANGED <<users, tasks, nextUser, nextTask, clock, events, sockets, clients>>

Logout(session) ==
    /\ Answer(Request("POST /api/auth/logout") @@ [session |-> session],
              200, [message |-> "Logged out successfully"], ClearCookie)
    /\ UNCHANGED <<users, tasks, nextUser, nextTask, clock, events, sockets, clients>>

(***************************************************************************)
(* POST /api/auth/register                                                 *)
(***************************************************************************)
\* registerSchema.parse
ParseRegister(body) ==
    IF Len(body.username) < MinUsernameLen
    THEN ZodError("Username must be at least 3 characters")
    ELSE IF Len(body.username) > MaxUsernameLen
    THEN ZodError("String must contain at most 30 character(s)")
    ELSE IF body.email \notin WellFormedEmails
    THEN ZodError("Invalid email address")
    ELSE IF Len(body.password) < MinPasswordLen
    THEN ZodError("Password must be at least 6 characters")
    ELSE [ok |-> TRUE, data |-> body]

RegisterBodies ==
    {[username |-> n, email |-> e, password |-> "secret1"] :
        n \in {"alice", "bobby"}, e \in {"alice@x.io", "bob@x.io"}}
    \cup {[username |-> "al", email |-> "alice@x.io", password |-> "secret1"],
          [username |-> "alice", email |-> "nope", password |-> "secret1"],
          [username |-> "alice", email |-> "alice@x.io", password |-> "short"]}

\* registerSchema.parse, then storage.getUserByEmail.
\* The request is taken up when the statement of getUserByEmail is executed.
RegisterBegin(session, body) ==
    LET req == Request("POST /api/auth/register") @@ [session |-> session]
        parsed == ParseRegister(body)
        failure == handleError(parsed.error, "Registration failed")
    IN  /\ IF ~parsed.ok
           THEN Answer(req, failure.status, failure.body, NoCookie)
           ELSE IF UserByEmail(body.email) # {}
           THEN Answer([req EXCEPT !.calls = 1], 400,
                       [message |-> "Email already in use"], NoCookie)
           ELSE Accept([req EXCEPT !.calls = 1] @@ [data |-> parsed.data], "username")
        /\ UNCHANGED <<users, tasks, nextUser, nextTask, clock, events, sockets, clients>>

\* storage.getUserByUsername, then bcrypt.hash
RegisterCheckUsername(r) ==
    /\ r.pc = "username"
    /\ LET r2 == [r EXCEPT !.calls = @ + 1]
       IN  IF UserByUsername(r.data.username) # {}
           THEN Respond(r, r2, 400, [message |-> "Username already taken"])
           ELSE Continue(r, [r2 EXCEPT !.pc = "createUser",
                                       !.data.password = Hash(r.data.password)])
    /\ UNCHANGED <<users, tasks, nextUser, nextTask, clock, nreq, events, sockets, clients>>

\* users.username and users.email are unique; the mutant has no constraint
NoUniqueConstraint(row) == TRUE
UniqueOk(row) == UserByEmail(row.email) = {} /\ UserByUsername(row.username) = {}
UniqueMessage == "duplicate key value violates unique constraint"

\* storage.createUser: randomUUID() and db.insert(users).values(..).returning(),
\* then jwt.sign, res.cookie and the 201
RegisterCreateUser(r) ==
    /\ r.pc = "createUser"
    /\ LET r2 == [r EXCEPT !.calls = @ + 1]
           user == r.data @@ [id |-> UserId(nextUser + 1), createdAt |-> clock]
           failure == handleError(DbError(UniqueMessage), "Registration failed")
       IN  IF ~UniqueOk(user)
           THEN /\ Respond(r, r2, failure.status, failure.body)
                /\ UNCHANGED users
           ELSE /\ users' = users \cup {user}
                /\ RespondCookie(r, [r2 EXCEPT !.writes = @ + 1], 201,
                                 [user |-> toPublicUser(user)],
                                 Sign(user.id, user.email, clock))
    /\ nextUser' = nextUser + 1
    /\ UNCHANGED <<tasks, nextTask, clock, nreq, events, sockets, clients>>

(***************************************************************************)
(* The next-state relations                                                *)
(***************************************************************************)
\* useAuth().user.id of the browser when it opens
LocalUser(c) == IF c = "c1" THEN "u1" ELSE "u2"

\* the events a page listens to, and the listeners of the shared socket: for
\* each event name the handlers registered, in the order of registration; a
\* handler is the handleTaskEvent of a page, closed over a user id
EventNames == {"task:created", "task:updated", "task:deleted", "task:assigned"}
NoListeners == [name \in EventNames |-> <<>>]

\* the four socket.on of a page's effect
socketOn(listeners, page, user) ==
    [name \in EventNames |-> Append(listeners[name], [page |-> page, user |-> user])]

\* the four socket.off(name) of the effect's cleanup: without a handler
\* argument, off removes every listener of the name.  The mutant removes
\* none, as off does when it is given a function that was never registered
socketOffMissing(listeners) == listeners
socketOff(listeners) == [name \in EventNames |-> <<>>]

\* a page just mounted: its effect has run; useQuery has no data yet and is
\* about to fetch;
\* handled lists the events its handleTaskEvent has run for, uuids counts the
\* ids crypto.randomUUID() has given out in the browser
Mounted(page, user) ==
    [page |-> page, user |-> user, listeners |-> socketOn(NoListeners, page, user),
     stale |-> TRUE, fetching |-> {}, cache |-> {},
     notices |-> <<>>, handled |-> <<>>, uuids |-> 0]

\* no socket has connected yet
NoChannels ==
    /\ sockets = [c \in ClientIds |-> NoSocket]
    /\ clients = [c \in ClientIds |-> Mounted("dashboard", LocalUser(c))]

\* whether the token of a request authMiddleware passes on is a valid session
Sessions == {a.session : a \in Admitted}

\* whether the token of a request to a route without authMiddleware is one
AnySession == {ValidSession(token, clock) : token \in TokenInputs}

\* the task routes that write
Mutation ==
    \/ \E a \in Admitted, body \in CreateBodies : CreateBegin(a, body)
    \/ \E r \in h : CreateInsert(r)
    \/ \E r \in h : CreateFinish(r)
    \/ \E session \in Sessions, id \in PathIds, body \in PatchBodies :
          PatchBegin(session, id, body)
    \/ \E r \in h : PatchUpdate(r)
    \/ \E r \in h : PatchFinish(r)
    \/ \E session \in Sessions, id \in PathIds : DeleteBegin(session, id)
    \/ \E r \in h : DeleteApply(r)
    \/ \E r \in h : DeleteFinish(r)

\* the routes that read
Reading ==
    \/ \E a \in Admitted : Me(a)
    \/ \E a \in Admitted : ListUsers(a)
    \/ \E a \in Admitted : ListTasks(a)
    \/ \E a \in Admitted, id \in PathIds : GetTask(a, id)

\* the routes of /api/auth that take no session
Authentication ==
    \/ \E session \in AnySession, body \in RegisterBodies : RegisterBegin(session, body)
    \/ \E r \in h : RegisterCheckUsername(r)
    \/ \E r \in h : RegisterCreateUser(r)
    \/ \E session \in AnySession, body \in LoginBodies : Login(session, body)
    \/ \E session \in AnySession : Logout(session)

MutatingRoutes == {"POST /api/tasks", "PATCH /api/tasks/:id", "DELETE /api/tasks/:id"}

(***************************************************************************)
(* Spec: the task routes that write, in a deployment in which two users    *)
(* registered one session lifetime ago (and one day less) and no task      *)
(* exists yet; the clock advances by days                                  *)
(***************************************************************************)
Alice == [id |-> UserId(1), username |-> "alice", email |-> "alice@x.io",
          password |-> Hash("secret1"), createdAt |-> 0 - SessionTTL]
Bobby == [id |-> UserId(2), username |-> "bobby", email |-> "bob@x.io",
          password |-> Hash("secret1"), createdAt |-> 1 - SessionTTL]

Init ==
    /\ users = {Alice, Bobby}
    /\ tasks = {}
    /\ nextUser = 2
    /\ nextTask = 0
    /\ clock = 0
    /\ h = {}
    /\ nreq = 0
    /\ events = <<>>
    /\ last = NoResponse
    /\ NoChannels

Next ==
    \/ \E route \in MutatingRoutes, token \in TokenInputs : Unauthenticated(route, token)
    \/ Mutation
    \/ Tick(1)
    \/ Sent

Spec == Init /\ [][Next]_vars

(***************************************************************************)
(* SpecRoutes: every route, from the empty database; the clock advances by *)
(* more than a session lifetime at a time                                  *)
(***************************************************************************)
InitRoutes ==
    /\ users = {}
    /\ tasks = {}
    /\ nextUser = 0
    /\ nextTask = 0
    /\ clock = 0
    /\ h = {}
    /\ nreq = 0
    /\ events = <<>>
    /\ last = NoResponse
    /\ NoChannels

NextRoutes ==
    \/ \E route \in ProtectedRoutes, token \in TokenInputs : Unauthenticated(route, token)
    \/ Authentication
    \/ Reading
    \/ Mutation
    \/ Tick(SessionTTL + 1)
    \/ Sent

SpecRoutes == InitRoutes /\ [][NextRoutes]_vars

(***************************************************************************)
(* Properties of the task routes                                           *)
(***************************************************************************)
PATCH == "PATCH /api/tasks/:id"
POST == "POST /api/tasks"
DELETE == "DELETE /api/tasks/:id"

\* the events request rid has broadcast, and their names
EventsOf(rid) == SelectSeq(events, LAMBDA e : e.rid = rid)
TypesOf(rid) == [n \in 1..Len(EventsOf(rid)) |-> EventsOf(rid)[n].type]

\* the response being sent answers a request of this route with this status
Answered(route, status) == last.status = status /\ last.req.route = route

\* C1: a successful PATCH that changes the stored assignee from null to an
\* existing user broadcasts task:updated then task:assigned and nothing else,
\* both with the task's id, task:assigned with the new assignee as userId
C1_NullToUserEmitsUpdatedThenAssigned ==
    (/\ Answered(PATCH, 200)
     /\ last.req.replaced.assignedToId = Null
     /\ last.body.assignedToId # Null
     /\ UserById(last.body.assignedToId) # {})
    => /\ TypesOf(last.req.rid) = <<"task:updated", "task:assigned">>
       /\ \A n \in 1..2 : EventsOf(last.req.rid)[n].taskId = last.req.id
       /\ EventsOf(last.req.rid)[2].userId = last.body.assignedToId

\* C2: a successful PATCH whose assignedToId equals the assignee stored
\* immediately before its update statement was applied broadcasts
\* task:updated and no task:assigned
C2_SameAssigneeNeverAssigned ==
    (/\ Answered(PATCH, 200)
     /\ "assignedToId" \in DOMAIN last.req.data
     /\ last.req.data.assignedToId = last.req.replaced.assignedToId)
    => TypesOf(last.req.rid) = <<"task:updated">>

\* C3: the events of a request are fixed by its outcome: one task:created
\* for a create, one task:updated for an update plus one task:assigned only
\* when the update changed the assignee, one task:deleted for a delete, and
\* none for a failed request, which has changed no row
C3_EventsFixedByOutcome ==
    /\ Answered(POST, 201) => TypesOf(last.req.rid) = <<"task:created">>
    /\ Answered(PATCH, 200) =>
          \/ TypesOf(last.req.rid) = <<"task:updated">>
          \/ /\ TypesOf(last.req.rid) = <<"task:updated", "task:assigned">>
             /\ last.body.assignedToId # last.req.replaced.assignedToId
    /\ Answered(DELETE, 200) => TypesOf(last.req.rid) = <<"task:deleted">>
    /\ last.status \in {400, 401, 404} =>
          /\ last.req.writes = 0
          /\ \A n \in 1..Len(events) : events[n].rid # last.req.rid

\* C4: a DELETE succeeds only if its own statement removed a row, a DELETE
\* that finds no row is answered 404 and broadcasts nothing, and no task id
\* has more than one task:deleted event (so more than one successful DELETE)
DeletedEvents(id) ==
    {n \in 1..Len(events) : events[n].type = "task:deleted" /\ events[n].taskId = id}
C4_DeleteSucceedsOnce ==
    /\ Answered(DELETE, 200) =>
          /\ last.req.writes = 1
          /\ TypesOf(last.req.rid) = <<"task:deleted">>
    /\ Answered(DELETE, 404) =>
          /\ last.req.writes = 0
          /\ TypesOf(last.req.rid) = <<>>
    /\ \A id \in PathIds : Cardinality(DeletedEvents(id)) <= 1

\* C4 witness: a DELETE that passed the existence check is answered 404
\* because a concurrent DELETE had removed the row, whose event is out
C4_LostRaceAnswered404 ==
    /\ Answered(DELETE, 404)
    /\ last.req.calls = 2
    /\ DeletedEvents(last.req.id) # {}

\* C9: a task is created with updatedAt = createdAt, and no step makes the
\* stored updatedAt of a task smaller
C9_UpdatedAtNeverDecreases ==
    [][/\ \A t \in tasks' : TaskById(t.id) = {} => t.updatedAt = t.createdAt
       /\ \A t \in tasks : \A t2 \in tasks' :
             t2.id = t.id => t2.updatedAt >= t.updatedAt]_vars

\* C10: every stored task has updatedAt >= createdAt, and both are readings
\* of the server clock, never the values a request body carried
ClientTimestamps == {98, 99}
C10_TimestampsServerAssigned ==
    \A t \in tasks :
        /\ t.updatedAt >= t.createdAt
        /\ t.createdAt \in 0..clock
        /\ t.updatedAt \in 0..clock
        /\ t.createdAt \notin ClientTimestamps
        /\ t.updatedAt \notin ClientTimestamps

\* C10 witness: a task whose create body and whose update body both carried
\* createdAt and updatedAt, updated on a later day than it was created
C10_BackdatedBodiesStored ==
    \E t \in tasks :
        /\ t.title = "Renamed"
        /\ t.updatedAt > t.createdAt
        /\ \E n \in 1..Len(events) :
              /\ events[n].type = "task:created"
              /\ events[n].taskId = t.id
              /\ events[n].data.title = "Backdated"

(***************************************************************************)
(* Properties of all routes (SpecRoutes)                                   *)
(***************************************************************************)
REGISTER == "POST /api/auth/register"
LOGIN == "POST /api/auth/login"
LOGOUT == "POST /api/auth/logout"

\* the messages of the 401 of authMiddleware
SessionRejections == {"Authentication required", "Invalid or expired token"}

\* C5: a request to a protected route whose token is not a valid session is
\* answered 401 having made no repository call, no write and no broadcast,
\* no such request is ever in flight, and register, login and logout are
\* never answered with the rejection of the session check
C5_NoSessionNoService ==
    /\ (last.status # 0 /\ last.req.route \in ProtectedRoutes /\ ~last.req.session) =>
          /\ last.status = 401
          /\ last.req.calls = 0
          /\ last.req.writes = 0
          /\ \A n \in 1..Len(events) : events[n].rid # last.req.rid
    /\ \A r \in h : r.route \in ProtectedRoutes => r.session
    /\ (last.status # 0 /\ last.req.route \in {REGISTER, LOGIN, LOGOUT}) =>
          ("message" \in DOMAIN last.body => last.body.message \notin SessionRejections)

\* C5 witness: a PATCH carrying a token the server signed more than
\* SessionTTL days ago is answered 401
C5_ExpiredTokenRejected ==
    /\ Answered(PATCH, 401)
    /\ last.req.token.kind = "jwt"
    /\ last.req.token.sig = "server"
    /\ clock - last.req.token.iat > SessionTTL

\* the user objects of a task with its relations
UsersOfTask(task) == {task.creator} \cup task.assignedTo

\* the user objects in the body of the response being sent
UsersInBody ==
    CASE last.status = 0 -> {}
      [] last.status # 0 /\ last.req.route \in {REGISTER, LOGIN, "GET /api/auth/me"} ->
            IF "user" \in DOMAIN last.body THEN {last.body.user} ELSE {}
      [] Answered("GET /api/users", 200) -> last.body
      [] Answered("GET /api/tasks", 200) -> UNION {UsersOfTask(t) : t \in last.body}
      [] Answered("GET /api/tasks/:id", 200) \/ Answered(POST, 201) \/ Answered(PATCH, 200) ->
            UsersOfTask(last.body)
      [] OTHER -> {}

\* the user objects in the payloads broadcast so far
UsersInEvents ==
    UNION {IF "data" \in DOMAIN events[n] THEN UsersOfTask(events[n].data) ELSE {} :
              n \in 1..Len(events)}

\* C6: no user object in a response body or in a broadcast payload has the
\* password field: each is the stored row without it
C6_NoPasswordInPayloads ==
    \A u \in UsersInBody \cup UsersInEvents :
        /\ "password" \notin DOMAIN u
        /\ \E row \in users : u = [k \in DOMAIN row \ {"password"} |-> row[k]]

\* C6 witness: the task list is answered with a task that has an assignee,
\* after the broadcast of that task
C6_ListedTaskWithAssignee ==
    /\ Answered("GET /api/tasks", 200)
    /\ \E t \in last.body : t.assignedTo # {}
    /\ UsersInEvents # {}

\* C7: in every state, a login with an unknown email and a login with a
\* known email and a wrong password, both passing validation, are answered
\* alike: status 401, the same body, no cookie set
C7_LoginFailuresIndistinguishable ==
    \A b1, b2 \in LoginBodies :
        (LoginOutcome(b1) = "unknown email" /\ LoginOutcome(b2) = "wrong password") =>
            /\ LoginResponse(b1) = LoginResponse(b2)
            /\ LoginResponse(b1).status = 401
            /\ LoginResponse(b2).cookie = NoCookie

\* C7 witness: a login with a wrong password for a registered email is being
\* answered while another email is still unknown
C7_WrongPasswordAnswered ==
    /\ Answered(LOGIN, 401)
    /\ LoginOutcome(last.req.body) = "wrong password"
    /\ \E b \in LoginBodies : LoginOutcome(b) = "unknown email"

\* C8: no two stored users share an email or a username; a register is
\* answered 201 or 400; a 400 has created no user and sets no cookie; a 201
\* has created exactly one user, the only one with its email and username,
\* and sets a token the server signed for that user's id and email
C8_RegistrationKeepsUsersUnique ==
    /\ \A u1, u2 \in users :
          (u1.email = u2.email \/ u1.username = u2.username) => u1 = u2
    /\ (last.status # 0 /\ last.req.route = REGISTER) =>
          /\ last.status \in {201, 400}
          /\ last.status = 400 => last.req.writes = 0 /\ last.cookie = NoCookie
          /\ last.status = 201 =>
                /\ last.req.writes = 1
                /\ Cardinality({u \in users : \/ u.email = last.body.user.email
                                              \/ u.username = last.body.user.username}) = 1
                /\ UserById(last.body.user.id) # {}
                /\ last.cookie.kind = "jwt"
                /\ last.cookie.sig = "server"
                /\ Payload(last.cookie) = [userId |-> last.body.user.id,
                                           email |-> last.body.user.email]

\* C8 witness: a register that passed both lookups is answered 400 because a
\* concurrent register had inserted the same email or username first
C8_LostRaceAnswered400 ==
    /\ Answered(REGISTER, 400)
    /\ last.req.calls = 3
    /\ \E u \in users : u.email = last.req.data.email \/ u.username = last.req.data.username

(***************************************************************************)
(* SpecFields: creates and updates that name single fields, on a database  *)
(* that already holds a task; no task is deleted                           *)
(***************************************************************************)
Seeded ==
    [id |-> "t7", title |-> "Ship release", description |-> "notes",
     dueDate |-> ParseDate("2029-12-31"), priority |-> "medium", status |-> "todo",
     assignedToId |-> "u2", creatorId |-> "u1", createdAt |-> 0, updatedAt |-> 0]

FieldCreateBodies ==
    {[title |-> "Plan"],
     [title |-> "Plan", dueDate |-> Null],
     [title |-> "Plan", dueDate |-> "2030-01-01"]}

FieldPatchBodies ==
    {[status |-> "completed"],
     [dueDate |-> Null],
     [dueDate |-> "2031-05-05"],
     [priority |-> "high"],
     [priority |-> "low"]}

FieldIds == {TaskId(n) : n \in 1..nextTask} \cup {Seeded.id}

InitFields ==
    /\ users = {Alice, Bobby}
    /\ tasks = {Seeded}
    /\ nextUser = 2
    /\ nextTask = 0
    /\ clock = 0
    /\ h = {}
    /\ nreq = 0
    /\ events = <<>>
    /\ last = NoResponse
    /\ NoChannels

NextFields ==
    \/ \E a \in Admitted, body \in FieldCreateBodies : CreateBegin(a, body)
    \/ \E r \in h : CreateInsert(r)
    \/ \E r \in h : CreateFinish(r)
    \/ \E session \in Sessions, id \in FieldIds, body \in FieldPatchBodies :
          PatchBegin(session, id, body)
    \/ \E r \in h : PatchUpdate(r)
    \/ \E r \in h : PatchFinish(r)
    \/ Tick(1)
    \/ Sent

SpecFields == InitFields /\ [][NextFields]_vars

(***************************************************************************)
(* Properties of field updates (SpecFields), of validation (Spec)          *)
(***************************************************************************)
\* the columns a patch can name
PatchFields == {"title", "description", "dueDate", "priority", "status", "assignedToId"}

\* request r is at its update statement in this step and the statement is applied
Applies(r) == r.route = PATCH /\ r.pc = "update" /\ r \notin h'

\* C11: the row a successful update returns has the patch's value in every
\* column the patch names (dueDate re-parsed), the updateTask reading of the
\* clock in updatedAt, and the value of the replaced row in every other
\* column; and a step changes or removes a stored task only by applying an
\* update statement for that task's id
C11_UpdateChangesOnlyPatchedFields ==
    /\ [](Answered(PATCH, 200) =>
            /\ \A k \in DOMAIN last.req.replaced \ (DOMAIN last.req.data \cup {"updatedAt"}) :
                  last.body[k] = last.req.replaced[k]
            /\ \A k \in DOMAIN last.req.data \ {"dueDate"} :
                  last.body[k] = last.req.data[k]
            /\ PatchFields \subseteq DOMAIN last.req.replaced
            /\ last.body.updatedAt = last.req.now)
    /\ [][\A t \in tasks : t \in tasks' \/ \E r \in h : Applies(r) /\ r.id = t.id]_vars

\* C11 witness: a patch of only the status has been applied to the seeded
\* task, which has an assignee, while another task is stored
C11_StatusOnlyPatchAnswered ==
    /\ Answered(PATCH, 200)
    /\ DOMAIN last.req.data = {"status"}
    /\ last.req.replaced.assignedToId = "u2"
    /\ last.body.status # last.req.replaced.status
    /\ Cardinality(tasks) = 2

\* C12: a patch with dueDate null returns the row with dueDate null, with a
\* date string the parsed timestamp, without the key the replaced row's
\* dueDate; a create without dueDate or with dueDate null stores null
C12_DueDateShapes ==
    /\ Answered(PATCH, 200) =>
          IF "dueDate" \notin DOMAIN last.req.data
          THEN last.body.dueDate = last.req.replaced.dueDate
          ELSE IF last.req.data.dueDate = Null
          THEN last.body.dueDate = Null
          ELSE last.body.dueDate = ParseDate(last.req.data.dueDate)
    /\ Answered(POST, 201) =>
          /\ ("dueDate" \notin DOMAIN last.req.data => last.body.dueDate = Null)
          /\ ("dueDate" \in DOMAIN last.req.data /\ last.req.data.dueDate = Null
                 => last.body.dueDate = Null)

\* C12 witness: a patch with dueDate null has cleared a stored dueDate
C12_DueDateCleared ==
    /\ Answered(PATCH, 200)
    /\ "dueDate" \in DOMAIN last.req.data
    /\ last.req.data.dueDate = Null
    /\ last.req.replaced.dueDate # Null

\* the messages of the task schemas' validation failures
ValidationMessages ==
    {"Required", "Title is required", "Title must be 100 characters or less",
     "Invalid enum value"}

\* C13: a create, update or delete answered with a validation failure has
\* made no repository call
C13_ValidationBeforeRepository ==
    (/\ last.status = 400
     /\ last.req.route \in MutatingRoutes
     /\ last.body.message \in ValidationMessages)
    => last.req.calls = 0 /\ last.req.writes = 0

\* C14: a PATCH that found its task is answered 200; the update statement of
\* a patch naming a priority leaves that priority stored, and a stored
\* priority changes in no other step
C14_LastPriorityWins ==
    /\ []((last.status # 0 /\ last.req.route = PATCH /\ "data" \in DOMAIN last.req)
            => last.status = 200)
    /\ [][/\ \A r \in h : (Applies(r) /\ "priority" \in DOMAIN r.data) =>
                \E t \in tasks' : t.id = r.id /\ t.priority = r.data.priority
          /\ \A t \in tasks : \A t2 \in tasks' :
                (t2.id = t.id /\ t2.priority # t.priority) =>
                    \E r \in h : /\ Applies(r)
                                 /\ r.id = t.id
                                 /\ "priority" \in DOMAIN r.data]_vars

\* C14 witness: two PATCHes of the same task with different priorities are
\* in flight, the update of one applied and the update of the other pending
C14_ConcurrentPriorities ==
    \E r1, r2 \in h :
        /\ r1.route = PATCH /\ r2.route = PATCH
        /\ r1.id = r2.id
        /\ r1.pc = "emit" /\ r2.pc = "update"
        /\ "priority" \in DOMAIN r1.data /\ "priority" \in DOMAIN r2.data
        /\ r1.data.priority # r2.data.priority

(***************************************************************************)
(* The realtime channel: io.use handshake, connection, disconnect          *)
(***************************************************************************)
\* io.use: the token is handshake.auth.token, or else the one cut out of the
\* cookie header; socket.user is set if it verifies; next() in every case.
\* The mutant refuses a connection whose token does not verify
HandshakeRejecting(auth, cookie, now) ==
    LET token == IF auth # NoToken THEN auth ELSE cookie
    IN  [accept |-> token # NoToken /\ Verifies(token, now),
         user |-> IF token # NoToken /\ Verifies(token, now)
                  THEN {Payload(token)} ELSE {}]
Handshake(auth, cookie, now) ==
    LET token == IF auth # NoToken THEN auth ELSE cookie
    IN  [accept |-> TRUE,
         user |-> IF token # NoToken /\ Verifies(token, now)
                  THEN {Payload(token)} ELSE {}]

\* the (handshake.auth.token, cookie) pairs a socket connects with
Handshakes ==
    LET valid(u) == Sign(u.id, u.email, clock)
    IN  {<<NoToken, NoToken>>,
         <<Garbage, NoToken>>,
         <<NoToken, valid(Alice)>>,
         <<Garbage, valid(Alice)>>,
         <<valid(Bobby), valid(Alice)>>,
         <<Sign(Alice.id, Alice.email, clock - SessionTTL - 1), NoToken>>,
         <<NoToken, Forge(Alice.id, Alice.email, clock)>>}

\* socket.connect() of client c: the handshake, then io.on("connection")
Connect(c, auth, cookie) ==
    LET hs == Handshake(auth, cookie, clock)
    IN  /\ last = NoResponse
        /\ ~sockets[c].connected
        /\ sockets' = [sockets EXCEPT ![c] =
                          [connected |-> hs.accept,
                           attempt |-> {[auth |-> auth, cookie |-> cookie]},
                           user |-> hs.user,
                           inbox |-> <<>>,
                           missed |-> @.missed]]
        /\ UNCHANGED <<users, tasks, nextUser, nextTask, clock, h, nreq, events, last, clients>>

\* socket.on("disconnect"): packets not handled yet are lost with the socket
Disconnect(c) ==
    /\ last = NoResponse
    /\ sockets[c].attempt # {}
    /\ sockets' = [sockets EXCEPT ![c] =
                      [NoSocket EXCEPT !.missed = sockets[c].missed \/ sockets[c].inbox # <<>>]]
    /\ UNCHANGED <<users, tasks, nextUser, nextTask, clock, h, nreq, events, last, clients>>

(***************************************************************************)
(* SpecChannels: sockets connecting and disconnecting while the stored     *)
(* task is updated and deleted, one request at a time                      *)
(***************************************************************************)
ChannelPatchBodies == {[assignedToId |-> "u1"]}

InitChannels == InitFields

NextChannels ==
    \/ \E session \in Sessions, id \in FieldIds, body \in ChannelPatchBodies :
          h = {} /\ PatchBegin(session, id, body)
    \/ \E r \in h : PatchUpdate(r)
    \/ \E r \in h : PatchFinish(r)
    \/ \E session \in Sessions, id \in FieldIds : h = {} /\ DeleteBegin(session, id)
    \/ \E r \in h : DeleteApply(r)
    \/ \E r \in h : DeleteFinish(r)
    \/ \E c \in ClientIds, hs \in Handshakes : Connect(c, hs[1], hs[2])
    \/ \E c \in ClientIds : Disconnect(c)
    \/ Sent

SpecChannels == InitChannels /\ [][NextChannels]_vars

(***************************************************************************)
(* The client: DashboardPage and TasksPage on task events, and the query   *)
(* of /api/tasks behind both                                               *)
(***************************************************************************)
Pages == {"dashboard", "tasks"}

\* handleTaskEvent, first statement: queryClient.invalidateQueries for every
\* event, on both pages.  The mutants skip it for task:deleted, and on the
\* tasks page
InvalidatesUnlessDeleted(page, event) == event.type # "task:deleted"
InvalidatesOnDashboardOnly(page, event) == page = "dashboard"
Invalidates(page, event) == TRUE

\* handleTaskEvent, both pages: the notification for an assignment to the
\* local user; the mutant does not compare the userId
AssignedNoticeForAnyone(userId, event) ==
    IF event.type = "task:assigned"
    THEN <<[title |-> "New task assigned"]>>
    ELSE <<>>
AssignedNotice(userId, event) ==
    IF event.type = "task:assigned" /\ event.userId = userId
    THEN <<[title |-> "New task assigned"]>>
    ELSE <<>>

\* handleTaskEvent, DashboardPage only: the notification for task:updated;
\* the mutant raises it on the tasks page too
UpdatedNoticeOnEveryPage(page, event) ==
    IF event.type = "task:updated"
    THEN <<[title |-> "Task updated"]>>
    ELSE <<>>
UpdatedNotice(page, event) ==
    IF page = "dashboard" /\ event.type = "task:updated"
    THEN <<[title |-> "Task updated"]>>
    ELSE <<>>

\* NotificationToast's autoDismissMs, and the time its timer has left after
\* half of it has passed
AutoDismissMs == 4000
ElapseMs == AutoDismissMs \div 2

\* crypto.randomUUID(): the n-th id of the browser
Uuid(n) == n

\* addNotification: the notification gets a fresh id and goes to the end of
\* the list, where its NotificationToast mounts and sets its timer.  The
\* mutant numbers a notification by its place in the list
addNotificationByPlace(prev, notification, n) ==
    Append(prev, notification @@ [id |-> Len(prev) + 1, left |-> AutoDismissMs])
addNotification(prev, notification, n) ==
    Append(prev, notification @@ [id |-> Uuid(n), left |-> AutoDismissMs])

\* the addNotification calls of one run of handleTaskEvent, in their order
RECURSIVE addNotifications(_, _, _)
addNotifications(prev, raised, n) ==
    IF raised = <<>>
    THEN prev
    ELSE addNotifications(addNotification(prev, Head(raised), n + 1), Tail(raised), n + 1)

\* dismissNotification: prev.filter((n) => n.id !== id); the mutant drops the
\* notification and every later one
dismissNotificationAndLater(prev, id) ==
    LET first == CHOOSE i \in 1..Len(prev) : prev[i].id = id /\ \A j \in 1..(i - 1) : prev[j].id # id
    IN  IF \E i \in 1..Len(prev) : prev[i].id = id THEN SubSeq(prev, 1, first - 1) ELSE prev
dismissNotification(prev, id) == SelectSeq(prev, LAMBDA n : n.id # id)

\* invalidateQueries({queryKey: ["/api/tasks"]}): the query is marked stale,
\* a fetch in flight is cancelled and a new one is started
Invalidate(client) == [client EXCEPT !.stale = TRUE, !.fetching = {}]

\* one run of handleTaskEvent, as the page and with the user id it was
\* registered for
handleTaskEvent(before, handler, event) ==
    LET client == IF Invalidates(handler.page, event)
                  THEN Invalidate(before) ELSE before
        raised == AssignedNotice(handler.user, event)
                  \o UpdatedNotice(handler.page, event)
    IN  [client EXCEPT
            !.notices = addNotifications(@, raised, client.uuids),
            !.uuids = @ + Len(raised),
            !.handled = Append(@, event)]

\* the listeners of an event name run one after the other
RECURSIVE RunListeners(_, _, _)
RunListeners(client, handlers, event) ==
    IF handlers = <<>>
    THEN client
    ELSE RunListeners(handleTaskEvent(client, Head(handlers), event), Tail(handlers), event)

\* the next packet of the socket reaches the listeners of its event name
Handle(c) ==
    /\ last = NoResponse
    /\ sockets[c].inbox # <<>>
    /\ LET event == Head(sockets[c].inbox)
       IN  /\ sockets' = [sockets EXCEPT ![c].inbox = Tail(@)]
           /\ clients' = [clients EXCEPT ![c] =
                 RunListeners(@, @.listeners[event.type], event)]
    /\ UNCHANGED <<users, tasks, nextUser, nextTask, clock, h, nreq, events, last>>

\* the routes of AuthenticatedLayout's Switch: the two pages that listen to
\* task events and, for the others, the calendar
Routes == Pages \cup {"calendar"}

\* the effect of a page for user: its cleanup if it had run, then its body
Effect(listeners, before, page, user) ==
    LET cleaned == IF before \in Pages THEN socketOff(listeners) ELSE listeners
    IN  IF page \in Pages THEN socketOn(cleaned, page, user) ELSE cleaned

\* the location changes: the Switch unmounts the page, whose effect is
\* cleaned up and whose notifications go with its state, and mounts the page
\* of the new route, whose effect runs; the query client and its data stay
Navigate(c, page) ==
    /\ last = NoResponse
    /\ page # clients[c].page
    /\ clients' = [clients EXCEPT ![c] =
          [@ EXCEPT !.page = page,
                    !.listeners = Effect(@, clients[c].page, page, clients[c].user),
                    !.notices = <<>>]]
    /\ UNCHANGED <<users, tasks, nextUser, nextTask, clock, h, nreq, events, last, sockets>>

\* useAuth() gives another user id: the effect, which depends on [user?.id],
\* is cleaned up and runs again
ChangeUser(c, user) ==
    /\ last = NoResponse
    /\ user # clients[c].user
    /\ clients' = [clients EXCEPT ![c] =
          [@ EXCEPT !.user = user,
                    !.listeners = Effect(@, clients[c].page, clients[c].page, user)]]
    /\ UNCHANGED <<users, tasks, nextUser, nextTask, clock, h, nreq, events, last, sockets>>

\* time passes in the browser: every running timer has ElapseMs less left; a
\* timer that is due fires before more time passes
Elapse(c) ==
    /\ last = NoResponse
    /\ clients[c].notices # <<>>
    /\ \A i \in DOMAIN clients[c].notices : clients[c].notices[i].left > 0
    /\ clients' = [clients EXCEPT ![c].notices =
                      [i \in DOMAIN @ |-> [@[i] EXCEPT !.left = @ - ElapseMs]]]
    /\ UNCHANGED <<users, tasks, nextUser, nextTask, clock, h, nreq, events, last, sockets>>

\* the setTimeout callback of the NotificationToast of id: onDismiss(id)
Timeout(c, id) ==
    /\ last = NoResponse
    /\ \E i \in DOMAIN clients[c].notices :
          clients[c].notices[i].id = id /\ clients[c].notices[i].left = 0
    /\ clients' = [clients EXCEPT ![c].notices = dismissNotification(@, id)]
    /\ UNCHANGED <<users, tasks, nextUser, nextTask, clock, h, nreq, events, last, sockets>>

\* a click on the dismiss button of the NotificationToast of id
Dismiss(c, id) ==
    /\ last = NoResponse
    /\ \E i \in DOMAIN clients[c].notices : clients[c].notices[i].id = id
    /\ clients' = [clients EXCEPT ![c].notices = dismissNotification(@, id)]
    /\ UNCHANGED <<users, tasks, nextUser, nextTask, clock, h, nreq, events, last, sockets>>

\* the GET /api/tasks of a stale query is served: authMiddleware passes it
\* and the route answers storage.getAllTasks()
FetchServe(c) ==
    /\ last = NoResponse
    /\ clients[c].stale
    /\ Admitted # {}
    /\ clients' = [clients EXCEPT ![c].stale = FALSE, ![c].fetching = {getAllTasks}]
    /\ UNCHANGED <<users, tasks, nextUser, nextTask, clock, h, nreq, events, last, sockets>>

\* the response arrives: it becomes the data of the query
FetchDone(c) ==
    /\ last = NoResponse
    /\ clients[c].fetching # {}
    /\ clients' = [clients EXCEPT ![c].cache = clients[c].fetching, ![c].fetching = {}]
    /\ UNCHANGED <<users, tasks, nextUser, nextTask, clock, h, nreq, events, last, sockets>>

(***************************************************************************)
(* SpecRealtime: two browsers, each on one page with its socket, while     *)
(* tasks are created, assigned and deleted one request at a time           *)
(***************************************************************************)
RealtimeCreateBodies == {[title |-> "Write report"]}
RealtimePatchBodies == {[assignedToId |-> "u2"], [assignedToId |-> "u1"]}

\* the session cookie of a browser, and its handshakes: with the cookie, or
\* with a malformed token
SessionCookie(c) ==
    LET user == IF LocalUser(c) = Alice.id THEN Alice ELSE Bobby
    IN  Sign(user.id, user.email, clock)

RealtimeHandshakes(c) == {<<NoToken, SessionCookie(c)>>, <<Garbage, NoToken>>}

\* the requests of a run with both browsers, and of a run under fairness
MaxNoticeRequests == 2

\* one request at a time: POST, PATCH and DELETE /api/tasks
RealtimeRequest(limit) ==
    \/ \E a \in Admitted, body \in RealtimeCreateBodies :
          h = {} /\ nreq < limit /\ CreateBegin(a, body)
    \/ \E r \in h : CreateInsert(r)
    \/ \E r \in h : CreateFinish(r)
    \/ \E session \in Sessions, id \in FieldIds, body \in RealtimePatchBodies :
          h = {} /\ nreq < limit /\ PatchBegin(session, id, body)
    \/ \E r \in h : PatchUpdate(r)
    \/ \E r \in h : PatchFinish(r)
    \/ \E session \in Sessions, id \in FieldIds :
          h = {} /\ nreq < limit /\ DeleteBegin(session, id)
    \/ \E r \in h : DeleteApply(r)
    \/ \E r \in h : DeleteFinish(r)

\* SpecRealtime: the browser c1 on either page; its socket comes and goes
InitRealtime ==
    /\ users = {Alice, Bobby}
    /\ tasks = {Seeded}
    /\ nextUser = 2
    /\ nextTask = 0
    /\ clock = 0
    /\ h = {}
    /\ nreq = 0
    /\ events = <<>>
    /\ last = NoResponse
    /\ sockets = [c \in ClientIds |-> NoSocket]
    /\ \E page \in Pages : clients = [c \in ClientIds |-> Mounted(page, LocalUser(c))]

NextRealtime ==
    \/ RealtimeRequest(MaxRequests)
    \/ \E hs \in RealtimeHandshakes("c1") : Connect("c1", hs[1], hs[2])
    \/ Disconnect("c1")
    \/ Handle("c1")
    \/ FetchServe("c1")
    \/ FetchDone("c1")
    \/ Sent

SpecRealtime == InitRealtime /\ [][NextRealtime]_vars

\* the steps a request in flight still has to take
RequestStep ==
    \/ \E r \in h : CreateInsert(r)
    \/ \E r \in h : CreateFinish(r)
    \/ \E r \in h : PatchUpdate(r)
    \/ \E r \in h : PatchFinish(r)
    \/ \E r \in h : DeleteApply(r)
    \/ \E r \in h : DeleteFinish(r)

\* SpecRealtimeFair: the server finishes what it began, packets are handled
\* and a stale query is refetched, however many other requests are answered
\* in between
NextRealtimeFair ==
    \/ RealtimeRequest(MaxNoticeRequests)
    \/ \E hs \in RealtimeHandshakes("c1") : Connect("c1", hs[1], hs[2])
    \/ Disconnect("c1")
    \/ Handle("c1")
    \/ FetchServe("c1")
    \/ FetchDone("c1")
    \/ Sent

SpecRealtimeFair ==
    /\ InitRealtime
    /\ [][NextRealtimeFair]_vars
    /\ WF_vars(Sent)
    /\ SF_vars(RequestStep)
    /\ SF_vars(Handle("c1"))
    /\ SF_vars(FetchServe("c1"))
    /\ SF_vars(FetchDone("c1"))

\* SpecNotices: both browsers, one on each page, with sockets that stay
InitNotices ==
    /\ users = {Alice, Bobby}
    /\ tasks = {Seeded}
    /\ nextUser = 2
    /\ nextTask = 0
    /\ clock = 0
    /\ h = {}
    /\ nreq = 0
    /\ events = <<>>
    /\ last = NoResponse
    /\ sockets = [c \in ClientIds |-> NoSocket]
    /\ \E page \in Pages :
          clients = [c \in ClientIds |->
                        Mounted(IF c = "c1" THEN page
                                ELSE CHOOSE other \in Pages : other # page,
                                LocalUser(c))]

NextNotices ==
    \/ RealtimeRequest(MaxNoticeRequests)
    \/ \E c \in ClientIds : Connect(c, NoToken, SessionCookie(c))
    \/ \E c \in ClientIds : Handle(c)
    \/ \E c \in ClientIds : FetchServe(c)
    \/ \E c \in ClientIds : FetchDone(c)
    \/ Sent

SpecNotices == InitNotices /\ [][NextNotices]_vars

(***************************************************************************)
(* Properties of the realtime channel (SpecChannels)                       *)
(***************************************************************************)
\* the events this step publishes
Published == SubSeq(events', Len(events) + 1, Len(events'))

\* C15: a step that publishes events sends them, in order, to every socket
\* connected before the step and to no other; in every other step no socket
\* is sent anything, so a socket that was not connected when an event was
\* published never gets it
C15_ReceiversAreTheConnected ==
    [][\A c \in ClientIds :
          IF Published # <<>>
          THEN IF sockets[c].connected
               THEN sockets'[c].inbox = sockets[c].inbox \o Published
               ELSE sockets'[c].inbox = <<>>
          ELSE Len(sockets'[c].inbox) <= Len(sockets[c].inbox)]_vars

\* C15 witness: a socket without a user holds a published event, while
\* another socket, connected now, was passed by an event and holds none
C15_AnonymousReceivesReconnectedNot ==
    \E c, d \in ClientIds :
        /\ sockets[c].connected /\ sockets[c].user = {} /\ sockets[c].inbox # <<>>
        /\ sockets[d].connected /\ sockets[d].missed /\ sockets[d].inbox = <<>>

\* the token the handshake of a connection attempt is to use: the explicit
\* one if given, else the cookie's
OfferedToken(attempt) == IF attempt.auth # NoToken THEN attempt.auth ELSE attempt.cookie

\* C16: every connection attempt is connected; its socket carries the userId
\* and email of the offered token if that is a valid session and no user
\* otherwise; and a connected socket without a user is sent every event
\* published
C16_HandshakeNeverRejects ==
    /\ [](\A c \in ClientIds : \A attempt \in sockets[c].attempt :
            /\ sockets[c].connected
            /\ sockets[c].user =
                  IF ValidSession(OfferedToken(attempt), clock)
                  THEN {[userId |-> OfferedToken(attempt).userId,
                         email |-> OfferedToken(attempt).email]}
                  ELSE {})
    /\ [][\A c \in ClientIds :
             (Published # <<>> /\ sockets[c].connected /\ sockets[c].user = {})
                => sockets'[c].inbox = sockets[c].inbox \o Published]_vars

\* C16 witness: a socket whose explicit token is malformed while its cookie
\* is a valid session is connected without a user and holds an event
C16_BadExplicitTokenAccepted ==
    \E c \in ClientIds : \E attempt \in sockets[c].attempt :
        /\ attempt.auth = Garbage
        /\ ValidSession(attempt.cookie, clock)
        /\ sockets[c].connected
        /\ sockets[c].user = {}
        /\ sockets[c].inbox # <<>>


(***************************************************************************)
(* Properties of the pages and their query (SpecRealtime)                  *)
(***************************************************************************)
\* C17: on every task event a mounted dashboard or tasks page marks its cached
\* task list stale and leaves the cached data as it is: the event payload is
\* never written into it.  The cache changes only to the response of a GET
\* /api/tasks in flight, and such a response is the whole list the server
\* read when it served the request.
C17_EventsOnlyInvalidate ==
    [][\A c \in ClientIds :
          /\ clients'[c].handled # clients[c].handled =>
                /\ clients'[c].stale
                /\ clients'[c].cache = clients[c].cache
          /\ clients'[c].cache # clients[c].cache =>
                /\ clients[c].fetching # {}
                /\ clients'[c].cache = clients[c].fetching
          /\ (clients'[c].fetching # clients[c].fetching /\ clients'[c].fetching # {}) =>
                clients'[c].fetching = {getAllTasks}]_vars

\* C17 witness: a page that has data handled an event; its list is marked
\* stale and still holds the earlier response, which the store has left behind
C17_StaleAfterEvent ==
    \E c \in ClientIds :
        /\ clients[c].handled # <<>>
        /\ clients[c].stale
        /\ clients[c].cache # {}
        /\ clients[c].cache # {getAllTasks}


\* a browser at rest: its socket is connected and has been at every
\* publication, no request is in flight, every packet has been handled and
\* no refetch is due or under way
AtRest(c) ==
    /\ sockets[c].connected
    /\ ~sockets[c].missed
    /\ h = {}
    /\ sockets[c].inbox = <<>>
    /\ ~clients[c].stale
    /\ clients[c].fetching = {}

\* the cached task list of a browser at rest is the list the store holds
C18_CacheEqualsStoreAtRest ==
    \A c \in ClientIds : AtRest(c) => clients[c].cache = {getAllTasks}

Raised(c) ==
    [i \in 1..(Len(clients'[c].notices) - Len(clients[c].notices)) |->
        [title |-> clients'[c].notices[Len(clients[c].notices) + i].title]]

RaisedWith(c, title) == SelectSeq(Raised(c), LAMBDA n : n.title = title)

\* the event a step hands to handleTaskEvent at browser c
HandlesEvent(c) == clients'[c].handled # clients[c].handled

Handled(c) == clients'[c].handled[Len(clients'[c].handled)]

NoticesWith(c, title) == SelectSeq(clients[c].notices, LAMBDA n : n.title = title)

HasHandled(c, type) == \E i \in DOMAIN clients[c].handled : clients[c].handled[i].type = type

C20_UpdatedNoticeOnDashboardOnly ==
    [][\A c \in ClientIds :
          HandlesEvent(c) =>
              /\ RaisedWith(c, "Task updated") =
                    IF clients[c].page = "dashboard" /\ Handled(c).type = "task:updated"
                    THEN <<[title |-> "Task updated"]>>
                    ELSE <<>>
              /\ Handled(c).type \in {"task:created", "task:deleted"} => Raised(c) = <<>>]_vars

\* C20 witness: both pages handled a task:created and a task:updated event;
\* the dashboard holds one "Task updated" notification and the tasks page none
C20_DashboardNotifiedTasksPageNot ==
    \E d, t \in ClientIds :
        /\ clients[d].page = "dashboard"
        /\ clients[t].page = "tasks"
        /\ \A c \in {d, t} : HasHandled(c, "task:created") /\ HasHandled(c, "task:updated")
        /\ Len(NoticesWith(d, "Task updated")) = 1
        /\ NoticesWith(t, "Task updated") = <<>>


(***************************************************************************)
(* Properties of the failures of the store (Spec)                          *)
(***************************************************************************)
\* the message of the error the store throws from a repository call of a
\* task route
ThrownMessages == {ForeignKeyMessage}

\* C21: a failure inside a route that is neither a validation failure nor a
\* not-found, unauthenticated or conflict outcome, such as an error thrown by
\* the store during a repository call, is answered with status 500 and the
\* generic message of the route: the message of the thrown error is in no
\* response.
C21_ThrownMessageNeverAnswered ==
    last.status \in {400, 500} =>
        \/ last.body.message \notin ThrownMessages
        \/ /\ last.status = 500
           /\ last.body.message \in {"Failed to create task", "Failed to update task"}


(***************************************************************************)
(* SpecCreator: creates and updates whose bodies name a creator, an id and *)
(* a creation time of their own                                            *)
(***************************************************************************)
ForeignId == "t9"

CreatorCreateBodies ==
    {[title |-> "Plan"],
     [title |-> "Claimed", creatorId |-> "u1", id |-> ForeignId, createdAt |-> 99],
     [title |-> "Claimed", creatorId |-> "u2", id |-> ForeignId, createdAt |-> 99]}

CreatorPatchBodies ==
    {[creatorId |-> "u2"],
     [title |-> "Taken over", creatorId |-> "u2", id |-> ForeignId, createdAt |-> 99],
     [status |-> "completed", id |-> ForeignId],
     [priority |-> "high", createdAt |-> 99]}

NextCreator ==
    \/ \E a \in Admitted, body \in CreatorCreateBodies : CreateBegin(a, body)
    \/ \E r \in h : CreateInsert(r)
    \/ \E r \in h : CreateFinish(r)
    \/ \E session \in Sessions, id \in FieldIds, body \in CreatorPatchBodies :
          PatchBegin(session, id, body)
    \/ \E r \in h : PatchUpdate(r)
    \/ \E r \in h : PatchFinish(r)
    \/ Tick(1)
    \/ Sent

SpecCreator == InitFields /\ [][NextCreator]_vars

(***************************************************************************)
(* Properties of the creator reference (SpecCreator)                       *)
(***************************************************************************)
\* the insert a step applies for request r
Inserts(r) == r.route = "POST /api/tasks" /\ r.pc = "insert" /\ r \notin h'

\* C22: the creatorId of every stored task is the user id of the verified
\* caller of the request that created it and is the id of an existing user; no
\* update, whatever keys its body has, changes the creatorId, the id or the
\* createdAt of a task.
C22_CreatorIsCallerAndFixed ==
    /\ [](\A t \in tasks : UserById(t.creatorId) # {})
    /\ [][/\ \A t \in tasks' :
                TaskById(t.id) = {} =>
                    \E r \in h :
                        /\ Inserts(r)
                        /\ t.id = r.id
                        /\ t.creatorId = r.user.userId
                        /\ r.user \in {a.user : a \in Admitted}
          /\ \A t \in tasks :
                \E t2 \in tasks' :
                    /\ t2.id = t.id
                    /\ t2.creatorId = t.creatorId
                    /\ t2.createdAt = t.createdAt
          /\ Cardinality(tasks') <= Cardinality(tasks) + 1]_vars

\* C22 witness: u2 created a task with a body naming u1 as creator, and the
\* seeded task of u1 went through an update whose body named u2 as creator,
\* another id and another creation time
C22_BodiesNamingCreatorStored ==
    /\ \E t \in tasks : t.title = "Claimed" /\ t.creatorId = "u2" /\ t.id = TaskId(1)
    /\ \E t \in tasks :
          /\ t.title = "Taken over"
          /\ t.id = Seeded.id
          /\ t.creatorId = Seeded.creatorId
          /\ t.createdAt = Seeded.createdAt


(***************************************************************************)
(* Properties of the enrichment (SpecRoutes)                               *)
(***************************************************************************)
\* the tasks in the body of the response being sent
TasksInBody ==
    CASE last.status = 0 -> {}
      [] Answered("GET /api/tasks", 200) -> last.body
      [] Answered("GET /api/tasks/:id", 200) \/ Answered(POST, 201) \/ Answered(PATCH, 200) ->
            {last.body}
      [] OTHER -> {}

\* the tasks in the payloads broadcast so far
TasksInEvents ==
    {events[n].data : n \in {m \in 1..Len(events) : "data" \in DOMAIN events[m]}}

\* the user object of the stored user with an id
PublicUsers(id) == {[k \in DOMAIN u \ {"password"} |-> u[k]] : u \in users \cap UserById(id)}

\* C23: every task a route returns or a task:created, task:updated or
\* task:assigned payload carries is enriched from its own ids: creator is the
\* public projection of the user whose id is creatorId; assignedTo is null
\* exactly when assignedToId is null and otherwise the public projection of the
\* user whose id is assignedToId, as the user records are.
C23_EnrichedFromOwnIds ==
    \A task \in TasksInBody \cup TasksInEvents :
        /\ {task.creator} = PublicUsers(task.creatorId)
        /\ task.assignedTo = {} <=> task.assignedToId = Null
        /\ task.assignedTo = (IF task.assignedToId = Null THEN {}
                              ELSE PublicUsers(task.assignedToId))

\* C23 witness: a task created by one user for another is answered by GET
\* /api/tasks/:id with both user objects, after its broadcast
C23_AssignedTaskAnswered ==
    /\ Answered("GET /api/tasks/:id", 200)
    /\ last.body.assignedTo # {}
    /\ last.body.assignedToId # last.body.creatorId
    /\ last.body \in TasksInEvents


(***************************************************************************)
(* SpecToasts: the notifications of the browser c1 on either page, with    *)
(* their timers and their dismiss buttons                                  *)
(***************************************************************************)
\* the ids the notifications of a run can have
ToastIds == 1..(2 * MaxRequests)

ToastStep ==
    \/ Elapse("c1")
    \/ \E id \in ToastIds : Timeout("c1", id)

NextToasts ==
    \/ RealtimeRequest(MaxRequests)
    \/ Connect("c1", NoToken, SessionCookie("c1"))
    \/ Handle("c1")
    \/ ToastStep
    \/ \E id \in ToastIds : Dismiss("c1", id)
    \/ Sent

\* the server finishes what it began, packets are handled, time passes and
\* due timers fire
SpecToasts ==
    /\ InitRealtime
    /\ [][NextToasts]_vars
    /\ WF_vars(Sent)
    /\ SF_vars(RequestStep)
    /\ SF_vars(Handle("c1"))
    /\ SF_vars(ToastStep)

(***************************************************************************)
(* Properties of the notifications and their timers (SpecToasts)           *)
(***************************************************************************)
NoticeIds(c) == [i \in DOMAIN clients[c].notices |-> clients[c].notices[i].id]

Shown(c, id) == \E i \in DOMAIN clients[c].notices : clients[c].notices[i].id = id

\* the list without its i-th notification
Without(list, i) == SubSeq(list, 1, i - 1) \o SubSeq(list, i + 1, Len(list))

\* C24: no two notifications of a page's list share an id; a dismissal by id
\* removes exactly that notification and leaves the others present and in
\* order; the timer of a notification is never restarted, whatever arrives or
\* is dismissed meanwhile; and every notification is removed in the end, by
\* its own timer if nobody dismisses it.
C24_NotificationsUniqueAndEphemeral ==
    /\ [](\A c \in ClientIds : \A i, j \in DOMAIN clients[c].notices :
              clients[c].notices[i].id = clients[c].notices[j].id => i = j)
    /\ [][\A c \in ClientIds :
            LET old == clients[c].notices
                new == clients'[c].notices
            IN  /\ Len(new) < Len(old) =>
                      \E i \in DOMAIN old : new = Without(old, i)
                /\ Len(new) >= Len(old) =>
                      \A i \in DOMAIN old :
                          /\ new[i].id = old[i].id
                          /\ new[i].title = old[i].title
                          /\ new[i].left <= old[i].left]_vars
    /\ \A id \in ToastIds : Shown("c1", id) ~> ~Shown("c1", id)

\* C24 witness: of three notifications the middle one was dismissed; the
\* first, raised earlier, has less time left than the last
C24_MiddleDismissed ==
    LET list == clients["c1"].notices
    IN  /\ Len(list) = 2
        /\ list[1].id = 1
        /\ list[2].id = 3
        /\ list[1].left < list[2].left


(***************************************************************************)
(* SpecSessions: sockets connected with a session cookie, while sessions   *)
(* expire, users log out and the seeded task is updated and deleted        *)
(***************************************************************************)
NextSessions ==
    \/ \E session \in Sessions, id \in FieldIds, body \in ChannelPatchBodies :
          h = {} /\ PatchBegin(session, id, body)
    \/ \E r \in h : PatchUpdate(r)
    \/ \E r \in h : PatchFinish(r)
    \/ \E session \in Sessions, id \in FieldIds : h = {} /\ DeleteBegin(session, id)
    \/ \E r \in h : DeleteApply(r)
    \/ \E r \in h : DeleteFinish(r)
    \/ \E c \in ClientIds : Connect(c, NoToken, SessionCookie(c))
    \/ \E c \in ClientIds : Disconnect(c)
    \/ \E session \in AnySession : Logout(session)
    \/ Tick(SessionTTL + 1)
    \/ Sent

SpecSessions == InitFields /\ [][NextSessions]_vars

(***************************************************************************)
(* Properties of established channels (SpecSessions)                       *)
(***************************************************************************)
\* the socket of c was connected by a handshake whose token has expired
Outlived(c) ==
    /\ sockets[c].connected
    /\ sockets[c].user # {}
    /\ \A a \in sockets[c].attempt : ~Verifies(OfferedToken(a), clock)

\* C25: the identity of a channel is checked at its handshake only: a socket
\* stays connected, with the user of its handshake, through every step but its
\* own disconnect, a logout included, and is sent every event published while
\* it is connected, whether or not its token is still valid.
C25_EstablishedChannelKeepsReceiving ==
    [][\A c \in ClientIds :
          /\ (sockets[c].connected /\ sockets'[c].attempt = sockets[c].attempt) =>
                /\ sockets'[c].connected
                /\ sockets'[c].user = sockets[c].user
                /\ sockets'[c].inbox = sockets[c].inbox \o Published
          /\ (last'.status # 0 /\ last'.req.route = LOGOUT) => sockets' = sockets]_vars

\* C25 witness: a logout is being answered while a socket whose token has
\* expired is still connected, and holds an event of an update made after the
\* expiry
C25_ExpiredChannelReceived ==
    /\ Answered(LOGOUT, 200)
    /\ \E c \in ClientIds :
          /\ Outlived(c)
          /\ \E i \in DOMAIN sockets[c].inbox, a \in sockets[c].attempt :
                /\ sockets[c].inbox[i].type = "task:updated"
                /\ sockets[c].inbox[i].data.updatedAt >= OfferedToken(a).exp


(***************************************************************************)
(* Properties of updates racing deletes (Spec)                             *)
(***************************************************************************)
\* C26: a PATCH whose task was deleted between its existence check and its
\* update statement is answered not-found, has written nothing and has
\* broadcast neither task:updated nor task:assigned; the task is absent, and a
\* task whose task:deleted event is out is never in the store again.
C26_UpdateNeverRestoresDeleted ==
    /\ [][\A r \in h :
            (Applies(r) /\ TaskById(r.id) = {}) =>
                /\ last'.status = 404
                /\ last'.req.rid = r.rid
                /\ tasks' = tasks
                /\ events' = events]_vars
    /\ [](Answered(PATCH, 404) =>
            /\ last.req.writes = 0
            /\ TypesOf(last.req.rid) = <<>>)
    /\ [](\A id \in PathIds : DeletedEvents(id) # {} => TaskById(id) = {})

\* C26 witness: a PATCH that passed the existence check is answered 404 after
\* a concurrent DELETE removed the row and broadcast task:deleted
C26_PatchLostRaceAnswered404 ==
    /\ Answered(PATCH, 404)
    /\ last.req.calls = 2
    /\ DeletedEvents(last.req.id) # {}
    /\ TaskById(last.req.id) = {}


\* C27: for each task id, under any interleaving of PATCH and DELETE requests,
\* no task:updated or task:assigned event for the id is broadcast after the
\* task:deleted event for it.
C27_NoUpdateEventAfterDeleted ==
    \A i, j \in 1..Len(events) :
        (/\ i < j
         /\ events[i].type = "task:deleted"
         /\ events[j].taskId = events[i].taskId)
        => events[j].type \notin {"task:updated", "task:assigned"}


\* the task:updated events of a task, as places in the sequence of events
UpdatedEvents(id) ==
    {n \in 1..Len(events) : events[n].type = "task:updated" /\ events[n].taskId = id}

Latest(places) == CHOOSE n \in places : \A m \in places : m <= n

TaskFields ==
    {"title", "description", "dueDate", "priority", "status", "assignedToId", "updatedAt"}

\* C28: task:updated events are broadcast in the order in which their update
\* statements were applied, so once every request has completed the latest
\* task:updated event of a task that still exists carries the task's stored
\* title, description, dueDate, priority, status, assignedToId and updatedAt.
C28_LatestUpdatedEventIsStored ==
    h = {} =>
        \A t \in tasks :
            UpdatedEvents(t.id) # {} =>
                \A k \in TaskFields : events[Latest(UpdatedEvents(t.id))].data[k] = t[k]


\* C29: in every task:assigned event userId is the assignedToId of its data
\* and taskId the id of its data; and it comes right after the task:updated
\* event of the same request, with no event of another request in between.
C29_AssignedEventAgreesAndFollows ==
    \A n \in 1..Len(events) :
        events[n].type = "task:assigned" =>
            /\ events[n].userId = events[n].data.assignedToId
            /\ events[n].taskId = events[n].data.id
            /\ n > 1
            /\ events[n - 1].type = "task:updated"
            /\ events[n - 1].rid = events[n].rid

\* C29 witness: the task:assigned event of one PATCH is out while another
\* request is past its write and has not broadcast yet
C29_AssignedWhileOtherInFlight ==
    /\ \E n \in 1..Len(events) : events[n].type = "task:assigned"
    /\ \E r \in h : r.pc = "emit"


(***************************************************************************)
(* SpecPages: the browser c1 goes from page to page and from user to user  *)
(* while its socket receives the events of the task routes                 *)
(***************************************************************************)
NextPages ==
    \/ RealtimeRequest(MaxNoticeRequests)
    \/ Connect("c1", NoToken, SessionCookie("c1"))
    \/ Handle("c1")
    \/ \E page \in Routes : Navigate("c1", page)
    \/ \E user \in {u.id : u \in users} : ChangeUser("c1", user)
    \/ Sent

SpecPages == InitFields /\ [][NextPages]_vars

(***************************************************************************)
(* Properties of the listeners of the shared socket (SpecPages)            *)
(***************************************************************************)
\* the step hands the next packet of the socket of c to its listeners
Delivers(c) ==
    /\ sockets[c].inbox # <<>>
    /\ sockets'[c].connected
    /\ sockets'[c].inbox = Tail(sockets[c].inbox)

\* C30: through page mounts, unmounts and changes of the user id, the shared
\* socket has at most one listener for each of the four event names, and it
\* is the handler of the page mounted now, bound to the user id of now; so one
\* received event raises at most one "New task assigned" and at most one "Task
\* updated" notification, and the former only for the user id of now.
C30_OneListenerOfTheMountedPage ==
    /\ [](\A c \in ClientIds : \A name \in EventNames :
            clients[c].listeners[name] =
                IF clients[c].page \in Pages
                THEN <<[page |-> clients[c].page, user |-> clients[c].user]>>
                ELSE <<>>)
    /\ [][\A c \in ClientIds :
            Delivers(c) =>
                /\ Len(RaisedWith(c, "New task assigned")) <= 1
                /\ Len(RaisedWith(c, "Task updated")) <= 1
                /\ RaisedWith(c, "New task assigned") # <<>> =>
                      Head(sockets[c].inbox).userId = clients[c].user]_vars

\* C30 witness: the browser that opened on the dashboard as u1 is on the tasks
\* page as u2 and has raised one notification there, for an assignment to u2
C30_NotifiedAfterNavigationAsOtherUser ==
    /\ clients["c1"].page = "tasks"
    /\ clients["c1"].user = "u2"
    /\ LocalUser("c1") # "u2"
    /\ Len(clients["c1"].notices) = 1
    /\ clients["c1"].notices[1].title = "New task assigned"
    /\ \E i \in DOMAIN clients["c1"].handled :
          /\ clients["c1"].handled[i].type = "task:assigned"
          /\ clients["c1"].handled[i].userId = "u2"

====
